---------------------------- MODULE Spec2Model ----------------------------
(***************************************************************************)
(* Logical planner of logq: src/logical/parser.rs.                         *)
(*                                                                         *)
(* The planner is a set of pure, mutually recursive translators from the   *)
(* surface AST (module ast) to the logical algebra (modules types and     *)
(* common).                                                                *)
(* Every translator is an operator computed the way the Rust code computes *)
(* it; a call is one step of the state machine: the initial state holds    *)
(* the function to call and its argument, the step stores the outcome.     *)
(* An outcome is Ok(v), Err(e), or Panic(why) for the calls on which the   *)
(* Rust code unwinds (unimplemented!(), index out of bounds).              *)
(***************************************************************************)
EXTENDS Integers, Sequences, FiniteSets, TLC

VARIABLES pc, fn, arg, out

vars == <<pc, fn, arg, out>>

(***************************************************************************)
(* Bounds of the model.                                                    *)
(***************************************************************************)
\* longest select list of a statement given to parse_query
MaxSelect == 2
\* longest argument list of a surface function call
MaxArgs == 1
\* deepest And/Or/Not nesting of a surface boolean tree
MaxDepth == 2

(***************************************************************************)
(* Option<T> and ParseResult<T>.                                           *)
(***************************************************************************)
None == [tag |-> "None"]
Some(x) == [tag |-> "Some", v |-> x]

Ok(x) == [tag |-> "Ok", v |-> x]
Err(e) == [tag |-> "Err", e |-> e]
\* the call does not return: the thread unwinds
Panic(why) == [tag |-> "Panic", why |-> why]

IsOk(r) == r.tag = "Ok"
IsErr(r) == r.tag = "Err"
IsPanic(r) == r.tag = "Panic"

\* enum ParseError
TypeMismatch == "TypeMismatch"
UnsupportedLogicOperator == "UnsupportedLogicOperator"
NotAggregateFunction == "NotAggregateFunction"
SelectExprMustBeNamed == "SelectExprMustBeNamed"

(***************************************************************************)
(* Surface AST (crate::syntax::ast), as the translators match on it.       *)
(***************************************************************************)
AstBoolean(b) == [tag |-> "ast::Value::Boolean", b |-> b]
AstFloat(f) == [tag |-> "ast::Value::Float", f |-> f]
AstIntegral(i) == [tag |-> "ast::Value::Integral", i |-> i]
AstStringLiteral(s) == [tag |-> "ast::Value::StringLiteral", s |-> s]

VEValue(v) == [tag |-> "ValueExpression::Value", val |-> v]
VEColumn(c) == [tag |-> "ValueExpression::Column", column_name |-> c]
VEOperator(op, l, r) ==
    [tag |-> "ValueExpression::Operator", op |-> op, left |-> l, right |-> r]
VEFuncCall(name, args, wg) ==
    [tag |-> "ValueExpression::FuncCall", func_name |-> name,
     select_exprs |-> args, within_group_opt |-> wg]

ComparisonExpression(op, l, r) ==
    [tag |-> "Condition::ComparisonExpression", op |-> op, left |-> l, right |-> r]

ECondition(c) == [tag |-> "ast::Expression::Condition", c |-> c]
EAnd(l, r) == [tag |-> "ast::Expression::And", l |-> l, r |-> r]
EOr(l, r) == [tag |-> "ast::Expression::Or", l |-> l, r |-> r]
ENot(c) == [tag |-> "ast::Expression::Not", c |-> c]
EValue(ve) == [tag |-> "ast::Expression::Value", value_expr |-> ve]

SEStar == [tag |-> "SelectExpression::Star"]
SEExpression(e, name_opt) ==
    [tag |-> "SelectExpression::Expression", expr |-> e, name_opt |-> name_opt]

WhereExpression(e) == [expr |-> e]
GroupByExpression(fields) == [exprs |-> fields]
LimitExpression(n) == [row_count |-> n]

SelectStatement(select_exprs, where_opt, group_by_opt, limit_opt) ==
    [select_exprs |-> select_exprs, where_expr_opt |-> where_opt,
     group_by_exprs_opt |-> group_by_opt, limit_expr_opt |-> limit_opt]

(***************************************************************************)
(* Logical algebra (super::types, crate::common::types).                   *)
(***************************************************************************)
ValBoolean(b) == [tag |-> "common::Value::Boolean", b |-> b]
ValFloat(f) == [tag |-> "common::Value::Float", f |-> f]
ValInt(i) == [tag |-> "common::Value::Int", i |-> i]
ValString(s) == [tag |-> "common::Value::String", s |-> s]

Constant(v) == [tag |-> "Expression::Constant", v |-> v]
Variable(n) == [tag |-> "Expression::Variable", name |-> n]
Function(name, args) == [tag |-> "Expression::Function", name |-> name, args |-> args]
Logic(f) == [tag |-> "Expression::Logic", formula |-> f]

NamedStar == [tag |-> "Named::Star"]
NamedExpression(e, alias) == [tag |-> "Named::Expression", e |-> e, alias |-> alias]

FormulaConstant(b) == [tag |-> "Formula::Constant", b |-> b]
Predicate(rel, l, r) == [tag |-> "Formula::Predicate", rel |-> rel, l |-> l, r |-> r]
PrefixOperator(op, f) == [tag |-> "Formula::PrefixOperator", op |-> op, f |-> f]
InfixOperator(op, l, r) == [tag |-> "Formula::InfixOperator", op |-> op, l |-> l, r |-> r]

LogicNot == "LogicPrefixOp::Not"
LogicAnd == "LogicInfixOp::And"
LogicOr == "LogicInfixOp::Or"

Aggregate(kind, named) == [kind |-> kind, named |-> named]
NamedAggregate(aggregate, name_opt) == [aggregate |-> aggregate, name_opt |-> name_opt]

NodeDataSource(ds) == [tag |-> "Node::DataSource", data_source |-> ds]
NodeMap(named_list, child) == [tag |-> "Node::Map", named_list |-> named_list, child |-> child]
NodeFilter(f, child) == [tag |-> "Node::Filter", formula |-> f, child |-> child]
NodeGroupBy(fields, aggs, child) ==
    [tag |-> "Node::GroupBy", fields |-> fields, named_aggregates |-> aggs, child |-> child]
NodeLimit(n, child) == [tag |-> "Node::Limit", row_count |-> n, child |-> child]

(***************************************************************************)
(* The translators.                                                        *)
(***************************************************************************)
RECURSIVE parse_logic(_)
RECURSIVE parse_value_expression(_)
RECURSIVE parse_expression(_)
RECURSIVE parse_func_args(_, _, _)

\* the ? operator: the value of an Ok, or the early return of anything else
Try(r, F(_)) == IF IsOk(r) THEN F(r.v) ELSE r

\* fn parse_prefix_operator
parse_prefix_operator(op, child) ==
    Try(parse_logic(child), LAMBDA child_parsed :
        Ok(PrefixOperator(op, child_parsed)))

\* fn parse_infix_operator: the left side is translated first, and its
\* error returned before the right side is looked at
parse_infix_operator(op, left, right) ==
    Try(parse_logic(left), LAMBDA left_parsed :
        Try(parse_logic(right), LAMBDA right_parsed :
            Ok(InfixOperator(op, left_parsed, right_parsed))))

\* fn parse_boolean_value
parse_boolean_value(value_expr) ==
    IF value_expr.tag = "ValueExpression::Value"
    THEN IF value_expr.val.tag = "ast::Value::Boolean"
         THEN Ok(FormulaConstant(value_expr.val.b))
         ELSE Err(TypeMismatch)
    ELSE Err(TypeMismatch)

\* fn parse_value
parse_value(value) ==
    CASE value.tag = "ast::Value::Boolean" -> Ok(Constant(ValBoolean(value.b)))
      [] value.tag = "ast::Value::Float" -> Ok(Constant(ValFloat(value.f)))
      [] value.tag = "ast::Value::Integral" -> Ok(Constant(ValInt(value.i)))
      [] value.tag = "ast::Value::StringLiteral" -> Ok(Constant(ValString(value.s)))

\* impl Display for ast::ValueOperator, as (*op).to_string() uses it
to_string(op) ==
    CASE op = "ValueOperator::Plus" -> "Plus"

\* parse_arithemetic with the operands pushed right before left
parse_arithemetic_swapped(value_expr) ==
    IF value_expr.tag = "ValueExpression::Operator"
    THEN Try(parse_value_expression(value_expr.left), LAMBDA left :
             Try(parse_value_expression(value_expr.right), LAMBDA right :
                 Ok(Function(to_string(value_expr.op),
                             << NamedExpression(right, None),
                                NamedExpression(left, None) >>))))
    ELSE Panic("unimplemented")

\* fn parse_arithemetic
parse_arithemetic(value_expr) ==
    IF value_expr.tag = "ValueExpression::Operator"
    THEN Try(parse_value_expression(value_expr.left), LAMBDA left :
             Try(parse_value_expression(value_expr.right), LAMBDA right :
                 Ok(Function(to_string(value_expr.op),
                             << NamedExpression(left, None),
                                NamedExpression(right, None) >>))))
    ELSE Panic("unimplemented")

\* the loop of parse_value_expression over a call's arguments, from
\* argument i on, args being the translations collected so far
parse_func_args(select_exprs, i, args) ==
    IF i > Len(select_exprs) THEN Ok(args)
    ELSE Try(parse_expression(select_exprs[i]), LAMBDA a :
             parse_func_args(select_exprs, i + 1, Append(args, a)))

\* fn parse_value_expression
parse_value_expression(value_expr) ==
    CASE value_expr.tag = "ValueExpression::Value" -> parse_value(value_expr.val)
      [] value_expr.tag = "ValueExpression::Column" ->
            Ok(Variable(value_expr.column_name))
      [] value_expr.tag = "ValueExpression::Operator" -> parse_arithemetic(value_expr)
      [] value_expr.tag = "ValueExpression::FuncCall" ->
            Try(parse_func_args(value_expr.select_exprs, 1, << >>), LAMBDA args :
                Ok(Function(value_expr.func_name, args)))

\* fn parse_relation
parse_relation(op) ==
    CASE op = "RelationOperator::Equal" -> Ok("Relation::Equal")
      [] op = "RelationOperator::NotEqual" -> Ok("Relation::NotEqual")
      [] op = "RelationOperator::GreaterEqual" -> Ok("Relation::GreaterEqual")
      [] op = "RelationOperator::LessEqual" -> Ok("Relation::LessEqual")
      [] op = "RelationOperator::LessThan" -> Ok("Relation::LessThan")
      [] op = "RelationOperator::MoreThan" -> Ok("Relation::MoreThan")

\* fn parse_condition
parse_condition(condition) ==
    Try(parse_value_expression(condition.left), LAMBDA left :
        Try(parse_value_expression(condition.right), LAMBDA right :
            Try(parse_relation(condition.op), LAMBDA rel_op :
                Ok(Predicate(rel_op, left, right)))))

\* fn parse_logic
parse_logic(expr) ==
    CASE expr.tag = "ast::Expression::Condition" -> parse_condition(expr.c)
      [] expr.tag = "ast::Expression::And" -> parse_infix_operator(LogicAnd, expr.l, expr.r)
      [] expr.tag = "ast::Expression::Or" -> parse_infix_operator(LogicOr, expr.l, expr.r)
      [] expr.tag = "ast::Expression::Not" -> parse_prefix_operator(LogicNot, expr.c)
      [] expr.tag = "ast::Expression::Value" -> parse_boolean_value(expr.value_expr)

\* fn parse_logic_expression
parse_logic_expression(expr) ==
    Try(parse_logic(expr), LAMBDA formula : Ok(Logic(formula)))

\* parse_expression, arm ast::Expression::Condition
parse_expression_condition(c, name_opt) ==
    Try(parse_condition(c), LAMBDA formula :
        Ok(NamedExpression(Logic(formula), name_opt)))

\* the And, Or and Not arms of parse_expression passing name_opt on, as
\* the Condition arm does
parse_expression_logic_keeps_alias(expr, name_opt) ==
    Try(parse_logic_expression(expr), LAMBDA e : Ok(NamedExpression(e, name_opt)))

\* parse_expression, arms ast::Expression::And, Or and Not
parse_expression_logic(expr, name_opt) ==
    Try(parse_logic_expression(expr), LAMBDA e : Ok(NamedExpression(e, None)))

\* the Value arm of parse_expression without the arm for a Variable
parse_expression_value_no_default(value_expr, name_opt) ==
    Try(parse_value_expression(value_expr), LAMBDA e : Ok(NamedExpression(e, None)))

\* parse_expression, arm ast::Expression::Value
parse_expression_value(value_expr, name_opt) ==
    Try(parse_value_expression(value_expr), LAMBDA e :
        IF e.tag = "Expression::Variable"
        THEN Ok(NamedExpression(e, Some(e.name)))
        ELSE Ok(NamedExpression(e, None)))

\* fn parse_expression
parse_expression(select_expr) ==
    CASE select_expr.tag = "SelectExpression::Star" -> Ok(NamedStar)
      [] select_expr.tag = "SelectExpression::Expression"
         /\ select_expr.expr.tag = "ast::Expression::Condition" ->
            parse_expression_condition(select_expr.expr.c, select_expr.name_opt)
      [] select_expr.tag = "SelectExpression::Expression"
         /\ select_expr.expr.tag \in {"ast::Expression::And", "ast::Expression::Or",
                                      "ast::Expression::Not"} ->
            parse_expression_logic(select_expr.expr, select_expr.name_opt)
      [] select_expr.tag = "SelectExpression::Expression"
         /\ select_expr.expr.tag = "ast::Expression::Value" ->
            parse_expression_value(select_expr.expr.value_expr, select_expr.name_opt)

\* the aggregate kind a function name stands for
aggregate_kind(value) ==
    CASE value = "avg" -> "Avg"
      [] value = "count" -> "Count"
      [] value = "first" -> "First"
      [] value = "last" -> "Last"
      [] value = "max" -> "Max"
      [] value = "min" -> "Min"
      [] value = "sum" -> "Sum"
      [] OTHER -> "none"

\* from_str matching the name whatever its case
from_str_any_case(value, named) ==
    IF value = "AVG" THEN Ok(Aggregate("Avg", named))
    ELSE IF aggregate_kind(value) # "none"
         THEN Ok(Aggregate(aggregate_kind(value), named))
         ELSE Err(NotAggregateFunction)

\* fn from_str
from_str(value, named) ==
    IF aggregate_kind(value) # "none"
    THEN Ok(Aggregate(aggregate_kind(value), named))
    ELSE Err(NotAggregateFunction)

\* the FuncCall arm of parse_aggregate dropping the select item's alias
parse_aggregate_call_no_alias(func_name, args, name_opt) ==
    IF Len(args) = 0 THEN Panic("index out of bounds")
    ELSE Try(parse_expression(args[1]), LAMBDA named :
             Try(from_str(func_name, named), LAMBDA aggregate :
                 Ok(NamedAggregate(aggregate, None))))

\* parse_aggregate, arm ValueExpression::FuncCall; &args[0] is an index
\* out of bounds on an empty argument list
parse_aggregate_call(func_name, args, name_opt) ==
    IF Len(args) = 0 THEN Panic("index out of bounds")
    ELSE Try(parse_expression(args[1]), LAMBDA named :
             Try(from_str(func_name, named), LAMBDA aggregate :
                 Ok(NamedAggregate(aggregate, name_opt))))

\* fn parse_aggregate
parse_aggregate(select_expr) ==
    CASE select_expr.tag = "SelectExpression::Expression"
         /\ select_expr.expr.tag = "ast::Expression::Value"
         /\ select_expr.expr.value_expr.tag = "ValueExpression::FuncCall" ->
            parse_aggregate_call(select_expr.expr.value_expr.func_name,
                                 select_expr.expr.value_expr.select_exprs,
                                 select_expr.name_opt)
      [] OTHER -> Err(TypeMismatch)

RECURSIVE select_loop(_, _, _, _)

\* the loop body on an aggregate, the operand not pushed on named_list
select_aggregate_no_projection(select_exprs, i, named_list, named_aggregates, named_aggregate) ==
    IF named_aggregate.aggregate.kind \in {"Avg", "Count"}
    THEN select_loop(select_exprs, i + 1, named_list,
                     Append(named_aggregates, named_aggregate))
    ELSE Panic("unimplemented")

\* the body of the loop of parse_query over query.select_exprs when
\* parse_aggregate succeeded on item i: the aggregate is pushed, and its
\* operand too when it is an Avg or a Count; then the rest of the loop
select_aggregate(select_exprs, i, named_list, named_aggregates, named_aggregate) ==
    IF named_aggregate.aggregate.kind \in {"Avg", "Count"}
    THEN select_loop(select_exprs, i + 1,
                     Append(named_list, named_aggregate.aggregate.named),
                     Append(named_aggregates, named_aggregate))
    ELSE Panic("unimplemented")

\* the loop body returning the error of parse_aggregate, as
\* parse_aggregate(select_expr)? would, instead of falling back
select_item_propagates(select_exprs, i, named_list, named_aggregates, r) ==
    CASE IsPanic(r) -> r
      [] IsOk(r) -> select_aggregate(select_exprs, i, named_list, named_aggregates, r.v)
      [] IsErr(r) -> r

\* the body of the loop when parse_aggregate returned r on item i
select_item(select_exprs, i, named_list, named_aggregates, r) ==
    CASE IsPanic(r) -> r
      [] IsOk(r) -> select_aggregate(select_exprs, i, named_list, named_aggregates, r.v)
      [] IsErr(r) ->
            Try(parse_expression(select_exprs[i]), LAMBDA named :
                select_loop(select_exprs, i + 1, Append(named_list, named),
                            named_aggregates))

\* the loop of parse_query over query.select_exprs, from item i on;
\* named_list and named_aggregates are the two lists as collected so far
select_loop(select_exprs, i, named_list, named_aggregates) ==
    IF i > Len(select_exprs)
    THEN Ok([named_list |-> named_list, named_aggregates |-> named_aggregates])
    ELSE select_item(select_exprs, i, named_list, named_aggregates,
                     parse_aggregate(select_exprs[i]))

\* parse_query, the select list: root wrapped in a Map
wrap_map(query, named_list, root) ==
    IF query.select_exprs # << >> THEN NodeMap(named_list, root) ELSE root

\* parse_query, the where clause: root wrapped in a Filter
wrap_filter(query, root) ==
    IF query.where_expr_opt.tag = "Some"
    THEN Try(parse_logic(query.where_expr_opt.v.expr), LAMBDA filter_formula :
             Ok(NodeFilter(filter_formula, root)))
    ELSE Ok(root)

\* the group-by clause wrapped only when the select list has an aggregate
wrap_group_by_if_aggregates(query, named_aggregates, root) ==
    IF query.group_by_exprs_opt.tag = "Some" /\ named_aggregates # << >>
    THEN NodeGroupBy(query.group_by_exprs_opt.v.exprs, named_aggregates, root)
    ELSE root

\* parse_query, the group-by clause: root wrapped in a GroupBy
wrap_group_by(query, named_aggregates, root) ==
    IF query.group_by_exprs_opt.tag = "Some"
    THEN NodeGroupBy(query.group_by_exprs_opt.v.exprs, named_aggregates, root)
    ELSE root

\* parse_query, the limit clause: root wrapped in a Limit
wrap_limit(query, root) ==
    IF query.limit_expr_opt.tag = "Some"
    THEN NodeLimit(query.limit_expr_opt.v.row_count, root)
    ELSE root

\* fn parse_query
parse_query(query, data_source) ==
    Try(IF query.select_exprs # << >>
        THEN select_loop(query.select_exprs, 1, << >>, << >>)
        ELSE Ok([named_list |-> << >>, named_aggregates |-> << >>]),
        LAMBDA lists :
            Try(wrap_filter(query, wrap_map(query, lists.named_list,
                                            NodeDataSource(data_source))),
                LAMBDA root :
                    Ok(wrap_limit(query,
                                  wrap_group_by(query, lists.named_aggregates, root)))))

(***************************************************************************)
(* The inputs the calls are made on.                                       *)
(***************************************************************************)
SeqsUpTo(S, n) == UNION {[1..k -> S] : k \in 0..n}

Columns == {"a", "b"}
Aliases == {"x"}
NameOpts == {None} \cup {Some(n) : n \in Aliases}
AggregateNames == {"avg", "count", "first", "last", "max", "min", "sum"}
FuncNames == AggregateNames \cup {"AVG", "f"}
ArithOps == {"ValueOperator::Plus"}
RelOps == {"RelationOperator::Equal", "RelationOperator::NotEqual",
           "RelationOperator::GreaterEqual", "RelationOperator::LessEqual",
           "RelationOperator::LessThan", "RelationOperator::MoreThan"}

Literals == {AstBoolean(TRUE), AstBoolean(FALSE), AstIntegral(1), AstIntegral(2),
             AstFloat("1.5"), AstStringLiteral("s")}

ColA == VEColumn("a")
Lit1 == VEValue(AstIntegral(1))

SimpleValues == {VEValue(l) : l \in Literals} \cup {VEColumn(c) : c \in Columns}

\* the select items that stand as arguments of a function call
ArgItems ==
    {SEStar, SEExpression(EValue(Lit1), None),
     SEExpression(EValue(ColA), Some("x")),
     SEExpression(ENot(EValue(ColA)), None),
     SEExpression(ENot(EValue(VEValue(AstBoolean(TRUE)))), Some("x")),
     SEExpression(ECondition(ComparisonExpression("RelationOperator::Equal", ColA, Lit1)),
                  Some("x"))}
    \cup {SEExpression(EValue(VEColumn(c)), None) : c \in Columns}

FuncCallsNamed(names) ==
    {VEFuncCall(f, args, None) : f \in names, args \in SeqsUpTo(ArgItems, MaxArgs)}

FuncCalls == FuncCallsNamed(FuncNames)

\* the operands of a binary arithmetic expression
ArithOperands ==
    SimpleValues
    \cup {VEOperator(op, l, r) : op \in ArithOps,
                                 l \in {Lit1, VEValue(AstIntegral(2)), ColA},
                                 r \in {Lit1, VEValue(AstIntegral(2)), ColA}}
    \cup FuncCallsNamed({"f"})

Conditions ==
    {ComparisonExpression(op, l, r) :
        op \in RelOps,
        l \in {ColA, Lit1, VEFuncCall("f", <<SEExpression(ENot(EValue(ColA)), None)>>, None)},
        r \in {ColA, Lit1, VEFuncCall("f", <<SEExpression(ENot(EValue(ColA)), None)>>, None)}}

\* the value expressions at the leaves of a boolean tree
ValueLeaves ==
    {EValue(ve) : ve \in {VEValue(AstBoolean(TRUE)), VEValue(AstBoolean(FALSE)), Lit1, ColA,
                          VEOperator("ValueOperator::Plus", Lit1, VEValue(AstIntegral(2))),
                          VEFuncCall("f", <<SEExpression(EValue(ColA), None)>>, None)}}

BoolLeaves ==
    ValueLeaves
    \cup {ECondition(ComparisonExpression("RelationOperator::Equal", ColA, Lit1))}

RECURSIVE BoolTrees(_)
\* the boolean trees of depth at most d in which every And and Or has a
\* leaf on one side at least
BoolTrees(d) ==
    IF d <= 0 THEN BoolLeaves
    ELSE LET T == BoolTrees(d - 1)
         IN  T \cup {ENot(t) : t \in T}
               \cup {EAnd(l, r) : l \in T, r \in BoolLeaves}
               \cup {EAnd(l, r) : l \in BoolLeaves, r \in T}
               \cup {EOr(l, r) : l \in T, r \in BoolLeaves}
               \cup {EOr(l, r) : l \in BoolLeaves, r \in T}

\* the boolean-shaped expressions of select items: conditions, And, Or, Not
BoolShaped == ({ECondition(c) : c \in Conditions} \cup BoolTrees(1)) \ ValueLeaves

FuncItem(f, args, n) == SEExpression(EValue(VEFuncCall(f, args, None)), n)

\* the select items of the statements given to parse_query
QueryItems ==
    {SEStar,
     SEExpression(EValue(ColA), None),
     SEExpression(EValue(VEColumn("b")), Some("x")),
     SEExpression(EValue(VEOperator("ValueOperator::Plus", ColA, Lit1)), None),
     SEExpression(ECondition(ComparisonExpression("RelationOperator::Equal", ColA, Lit1)),
                  Some("x")),
     SEExpression(ENot(EValue(ColA)), None),
     FuncItem("avg", <<SEExpression(EValue(ColA), None)>>, None),
     FuncItem("count", <<SEExpression(EValue(VEColumn("b")), None)>>, Some("x")),
     FuncItem("avg", <<SEExpression(ENot(EValue(ColA)), None)>>, None),
     FuncItem("max", <<SEExpression(EValue(ColA), None)>>, None),
     FuncItem("AVG", <<SEExpression(EValue(ColA), None)>>, None),
     FuncItem("f", << >>, None)}

WhereOpts ==
    {None} \cup
    {Some(WhereExpression(e)) :
        e \in {ECondition(ComparisonExpression("RelationOperator::Equal", ColA, Lit1)),
               EAnd(EValue(VEValue(AstBoolean(TRUE))), ENot(EValue(VEValue(AstBoolean(FALSE))))),
               EOr(EValue(VEValue(AstBoolean(TRUE))), EValue(ColA))}}

GroupByOpts == {None, Some(GroupByExpression(<<"b">>)), Some(GroupByExpression(<<"b", "a">>))}
LimitOpts == {None, Some(LimitExpression(10))}
DataSources == {"DataSource::Stdin", "DataSource::File"}

(***************************************************************************)
(* The state machine: one call of one translator.                          *)
(***************************************************************************)
\* ve is a value expression of the model: a literal, a column, a function
\* call, or a binary arithmetic expression on ArithOperands
InValueExprs(ve) ==
    \/ ve \in SimpleValues \cup FuncCalls
    \/ \E op \in ArithOps, l \in ArithOperands, r \in ArithOperands :
          ve = VEOperator(op, l, r)

\* s is a select item of the model: the star, or a value expression or a
\* boolean-shaped expression with or without an alias
InSelectItems(s) ==
    \/ s = SEStar
    \/ \E n \in NameOpts :
          \/ \E ve \in SimpleValues \cup FuncCalls : s = SEExpression(EValue(ve), n)
          \/ \E op \in ArithOps, l \in ArithOperands, r \in ArithOperands :
                s = SEExpression(EValue(VEOperator(op, l, r)), n)
          \/ \E e \in BoolShaped : s = SEExpression(e, n)

\* e is a boolean expression of the model: a condition, or a tree of depth
\* at most MaxDepth
InLogicInputs(e) ==
    \/ \E c \in Conditions : e = ECondition(c)
    \/ e \in BoolTrees(MaxDepth - 1)
    \/ \E t \in BoolTrees(MaxDepth - 1) : e = ENot(t)
    \/ \E t \in BoolTrees(MaxDepth - 1), l \in BoolLeaves :
          \/ e = EAnd(t, l)
          \/ e = EAnd(l, t)
          \/ e = EOr(t, l)
          \/ e = EOr(l, t)

\* a is a statement of the model with a data source
InQueries(a) ==
    \E s \in SeqsUpTo(QueryItems, MaxSelect), w \in WhereOpts, g \in GroupByOpts,
       l \in LimitOpts, d \in DataSources :
        a = [query |-> SelectStatement(s, w, g, l), data_source |-> d]

Init ==
    /\ pc = "ready"
    /\ out = None
    /\ \/ fn = "parse_query" /\ InQueries(arg)
       \/ fn = "parse_expression" /\ InSelectItems(arg)
       \/ fn = "parse_aggregate" /\ InSelectItems(arg)
       \/ fn = "parse_logic" /\ InLogicInputs(arg)
       \/ fn = "parse_value_expression" /\ InValueExprs(arg)

\* the call is over: it returned out, or it unwound
Finish(r) ==
    /\ out' = r
    /\ pc' = IF IsPanic(r) THEN "panicked" ELSE "returned"
    /\ UNCHANGED <<fn, arg>>

CallParseQuery ==
    pc = "ready" /\ fn = "parse_query" /\ Finish(parse_query(arg.query, arg.data_source))

CallParseExpression ==
    pc = "ready" /\ fn = "parse_expression" /\ Finish(parse_expression(arg))

CallParseAggregate ==
    pc = "ready" /\ fn = "parse_aggregate" /\ Finish(parse_aggregate(arg))

CallParseLogic ==
    pc = "ready" /\ fn = "parse_logic" /\ Finish(parse_logic(arg))

CallParseValueExpression ==
    pc = "ready" /\ fn = "parse_value_expression" /\ Finish(parse_value_expression(arg))

Next ==
    \/ CallParseQuery
    \/ CallParseExpression
    \/ CallParseAggregate
    \/ CallParseLogic
    \/ CallParseValueExpression

Spec == Init /\ [][Next]_vars

(***************************************************************************)
(* What the properties read off a call and its outcome.                    *)
(***************************************************************************)
Called(f) == fn = f /\ pc # "ready"
Returned(f) == fn = f /\ pc = "returned"

RECURSIVE Layers(_)
\* the operators of a plan, from the leaf upward
Layers(node) ==
    IF node.tag = "Node::DataSource" THEN <<node.tag>>
    ELSE Append(Layers(node.child), node.tag)

RECURSIVE LayerOf(_, _)
\* the lowest operator of a plan that has the given tag
LayerOf(node, tag) ==
    IF node.tag = "Node::DataSource" THEN node
    ELSE LET below == LayerOf(node.child, tag)
         IN  IF below.tag = tag THEN below
             ELSE IF node.tag = tag THEN node ELSE below

OptLayer(opt, tag) == IF opt.tag = "Some" THEN <<tag>> ELSE << >>

\* the operators the clauses of a statement ask for, from the leaf upward
ClauseLayers(query) ==
    <<"Node::DataSource">>
    \o (IF query.select_exprs # << >> THEN <<"Node::Map">> ELSE << >>)
    \o OptLayer(query.where_expr_opt, "Node::Filter")
    \o OptLayer(query.group_by_exprs_opt, "Node::GroupBy")
    \o OptLayer(query.limit_expr_opt, "Node::Limit")

IsValueItem(s) ==
    s.tag = "SelectExpression::Expression" /\ s.expr.tag = "ast::Expression::Value"

IsBoolItem(s) ==
    s.tag = "SelectExpression::Expression" /\ s.expr.tag # "ast::Expression::Value"

\* C1: an Ok plan of parse_query is one chain DataSource, Map, Filter,
\* GroupBy, Limit from the leaf upward, each optional layer there exactly
\* when its clause was given, none twice, the leaf holding the descriptor.
C1_PlanIsOrderedChain ==
    (Returned("parse_query") /\ IsOk(out)) =>
        /\ Layers(out.v) = ClauseLayers(arg.query)
        /\ LayerOf(out.v, "Node::DataSource") = NodeDataSource(arg.data_source)

\* a statement with all four clauses was planned
C1_Witness ==
    /\ Returned("parse_query") /\ IsOk(out)
    /\ Len(Layers(out.v)) = 5
    /\ arg.data_source = "DataSource::File"

\* C2: a call of parse_query ends by returning Ok or Err, also on select
\* items calling first, last, max, min or sum and on calls without arguments.
C2_ParseQueryReturns ==
    Called("parse_query") => (pc = "returned" /\ out.tag \in {"Ok", "Err"})

\* C3: a plain scalar select item with user alias n translates to
\* Named::Expression(e, Some(n)), e the translation of its value.
C3_UserAliasKept ==
    (Called("parse_expression") /\ IsValueItem(arg) /\ arg.name_opt # None
     /\ IsOk(parse_value_expression(arg.expr.value_expr))) =>
        out = Ok(NamedExpression(parse_value_expression(arg.expr.value_expr).v,
                                 arg.name_opt))

CanonicalValue(l) ==
    CASE l.tag = "ast::Value::Boolean" -> [tag |-> "common::Value::Boolean", b |-> l.b]
      [] l.tag = "ast::Value::Float" -> [tag |-> "common::Value::Float", f |-> l.f]
      [] l.tag = "ast::Value::Integral" -> [tag |-> "common::Value::Int", i |-> l.i]
      [] l.tag = "ast::Value::StringLiteral" -> [tag |-> "common::Value::String", s |-> l.s]

\* C5: an un-aliased plain scalar select item translating to Variable(c)
\* gets the alias Some(c), one translating to anything else gets None, and
\* a literal L gives Named::Expression(Constant(L'), None).
C5_DefaultAlias ==
    (Called("parse_expression") /\ IsValueItem(arg) /\ arg.name_opt = None) =>
        LET ve == arg.expr.value_expr
            e == parse_value_expression(ve)
        IN  /\ IsOk(e) =>
                /\ pc = "returned" /\ IsOk(out)
                /\ out.v.tag = "Named::Expression" /\ out.v.e = e.v
                /\ out.v.alias = IF e.v.tag = "Expression::Variable"
                                 THEN Some(e.v.name) ELSE None
            /\ ve.tag = "ValueExpression::Column" =>
                out = Ok(NamedExpression(Variable(ve.column_name), Some(ve.column_name)))
            /\ ve.tag = "ValueExpression::Value" =>
                out = Ok(NamedExpression(Constant(CanonicalValue(ve.val)), None))

\* an un-aliased column was given its own name
C5_Witness ==
    /\ Returned("parse_expression") /\ IsValueItem(arg) /\ arg.name_opt = None
    /\ out = Ok(NamedExpression(Variable("b"), Some("b")))

\* the select item f(c): an un-aliased call on one un-aliased bare column
IsCallOnColumn(s) ==
    /\ IsValueItem(s) /\ s.name_opt = None
    /\ s.expr.value_expr.tag = "ValueExpression::FuncCall"
    /\ Len(s.expr.value_expr.select_exprs) = 1
    /\ \E c \in Columns :
          s.expr.value_expr.select_exprs[1] = SEExpression(EValue(VEColumn(c)), None)

\* the aggregate kind named by each of the seven keywords
KindOfKeyword ==
    [f \in {"avg", "count", "first", "last", "max", "min", "sum"} |->
        CASE f = "avg" -> "Avg" [] f = "count" -> "Count" [] f = "first" -> "First"
          [] f = "last" -> "Last" [] f = "max" -> "Max" [] f = "min" -> "Min"
          [] f = "sum" -> "Sum"]

\* C6: parse_aggregate on the un-aliased item f(c) returns Ok exactly when f
\* is one of the seven lowercase keywords, and then the aggregate of that
\* kind on Named::Expression(Variable(c), Some(c)) with alias None; for
\* every other f, "AVG" too, it returns Err(NotAggregateFunction).
C6_AggregateKeywords ==
    (Called("parse_aggregate") /\ IsCallOnColumn(arg)) =>
        LET f == arg.expr.value_expr.func_name
            c == arg.expr.value_expr.select_exprs[1].expr.value_expr.column_name
        IN  IF f \in DOMAIN KindOfKeyword
            THEN out = Ok(NamedAggregate(
                            Aggregate(KindOfKeyword[f],
                                      NamedExpression(Variable(c), Some(c))),
                            None))
            ELSE out = Err(NotAggregateFunction)

\* max(b) was classified
C6_Witness ==
    /\ Returned("parse_aggregate") /\ IsCallOnColumn(arg) /\ IsOk(out)
    /\ arg.expr.value_expr.func_name = "max"
    /\ out.v.aggregate = Aggregate("Max", NamedExpression(Variable("b"), Some("b")))

\* C7: on an Ok plan of a non-empty select list the Map layer has one
\* entry per select item, in order: the operand of the Avg or Count that
\* parse_aggregate made of the item, or, when parse_aggregate did not
\* succeed on it, the result of parse_expression on it.
C7_ProjectionList ==
    (Returned("parse_query") /\ IsOk(out) /\ arg.query.select_exprs # << >>) =>
        LET items == arg.query.select_exprs
            map == LayerOf(out.v, "Node::Map")
        IN  /\ map.tag = "Node::Map"
            /\ Len(map.named_list) = Len(items)
            /\ \A i \in 1..Len(items) :
                  LET a == parse_aggregate(items[i])
                  IN  /\ (IsOk(a) /\ a.v.aggregate.kind \in {"Avg", "Count"}) =>
                            map.named_list[i] = a.v.aggregate.named
                      /\ ~IsOk(a) => parse_expression(items[i]) = Ok(map.named_list[i])

\* a plan was made of an aggregate next to an item that fell back on a
\* NotAggregateFunction
C7_Witness ==
    /\ Returned("parse_query") /\ IsOk(out)
    /\ Len(arg.query.select_exprs) = 2
    /\ IsOk(parse_aggregate(arg.query.select_exprs[1]))
    /\ parse_aggregate(arg.query.select_exprs[2]) = Err(NotAggregateFunction)

RECURSIVE AggregatesOf(_, _)
\* the aggregates parse_aggregate makes of the items from i on
AggregatesOf(items, i) ==
    IF i > Len(items) THEN << >>
    ELSE LET a == parse_aggregate(items[i])
         IN  (IF IsOk(a) THEN <<a.v>> ELSE << >>) \o AggregatesOf(items, i + 1)

RECURSIVE AliasesOfAggregates(_, _)
\* the aliases of the items from i on that parse_aggregate succeeds on
AliasesOfAggregates(items, i) ==
    IF i > Len(items) THEN << >>
    ELSE (IF IsOk(parse_aggregate(items[i])) THEN <<items[i].name_opt>> ELSE << >>)
         \o AliasesOfAggregates(items, i + 1)

\* C8: on an Ok plan of a statement with a group-by clause the GroupBy
\* layer carries the clause's field names unchanged and the aggregates of
\* the select items parse_aggregate succeeded on, in order, each with its
\* item's alias; items that fell back add nothing.
C8_GroupByAggregates ==
    (Returned("parse_query") /\ IsOk(out) /\ arg.query.group_by_exprs_opt # None) =>
        LET items == arg.query.select_exprs
            g == LayerOf(out.v, "Node::GroupBy")
        IN  /\ g.tag = "Node::GroupBy"
            /\ g.fields = arg.query.group_by_exprs_opt.v.exprs
            /\ g.named_aggregates = AggregatesOf(items, 1)
            /\ [k \in 1..Len(g.named_aggregates) |-> g.named_aggregates[k].name_opt]
                  = AliasesOfAggregates(items, 1)

\* a grouped plan was made of an aliased aggregate and a plain item
C8_Witness ==
    /\ Returned("parse_query") /\ IsOk(out) /\ arg.query.group_by_exprs_opt # None
    /\ Len(arg.query.select_exprs) = 2
    /\ Len(LayerOf(out.v, "Node::GroupBy").named_aggregates) = 1
    /\ LayerOf(out.v, "Node::GroupBy").named_aggregates[1].name_opt = Some("x")
    /\ LayerOf(out.v, "Node::GroupBy").fields = <<"b", "a">>

RECURSIVE IsValueTree(_)
\* a boolean tree of And, Or and Not nodes over value expressions
IsValueTree(e) ==
    CASE e.tag = "ast::Expression::Value" -> TRUE
      [] e.tag = "ast::Expression::Not" -> IsValueTree(e.c)
      [] e.tag \in {"ast::Expression::And", "ast::Expression::Or"} ->
            IsValueTree(e.l) /\ IsValueTree(e.r)
      [] OTHER -> FALSE

RECURSIVE AllLeavesBoolean(_)
\* every leaf of a value tree is a boolean literal
AllLeavesBoolean(e) ==
    CASE e.tag = "ast::Expression::Value" ->
            /\ e.value_expr.tag = "ValueExpression::Value"
            /\ e.value_expr.val.tag = "ast::Value::Boolean"
      [] e.tag = "ast::Expression::Not" -> AllLeavesBoolean(e.c)
      [] OTHER -> AllLeavesBoolean(e.l) /\ AllLeavesBoolean(e.r)

RECURSIVE Mirror(_)
\* the formula of the shape of a value tree over boolean literals
Mirror(e) ==
    CASE e.tag = "ast::Expression::Value" ->
            [tag |-> "Formula::Constant", b |-> e.value_expr.val.b]
      [] e.tag = "ast::Expression::Not" ->
            [tag |-> "Formula::PrefixOperator", op |-> "LogicPrefixOp::Not", f |-> Mirror(e.c)]
      [] e.tag = "ast::Expression::And" ->
            [tag |-> "Formula::InfixOperator", op |-> "LogicInfixOp::And",
             l |-> Mirror(e.l), r |-> Mirror(e.r)]
      [] e.tag = "ast::Expression::Or" ->
            [tag |-> "Formula::InfixOperator", op |-> "LogicInfixOp::Or",
             l |-> Mirror(e.l), r |-> Mirror(e.r)]

\* C9, of parse_logic alone: on a tree of And, Or and Not over value
\* expressions it returns the formula of the same shape when every leaf is
\* a boolean literal, and Err(TypeMismatch) otherwise.
C9_ParseLogicOnValueTrees ==
    (Called("parse_logic") /\ IsValueTree(arg)) =>
        IF AllLeavesBoolean(arg) THEN out = Ok(Mirror(arg))
        ELSE out = Err(TypeMismatch)

\* C9: parse_logic returns Ok, with the formula of the input's shape, iff
\* every leaf of the And/Or/Not tree is a boolean literal, and
\* Err(TypeMismatch) otherwise, so that parse_query returns
\* Err(TypeMismatch) on a where clause with another leaf.
C9_TypeMismatchOnValueLeaf ==
    /\ C9_ParseLogicOnValueTrees
    /\ (Called("parse_query") /\ arg.query.where_expr_opt # None
        /\ IsValueTree(arg.query.where_expr_opt.v.expr)
        /\ ~AllLeavesBoolean(arg.query.where_expr_opt.v.expr)) =>
            out = Err(TypeMismatch)

\* the display form of an arithmetic operator
DisplayForm(op) ==
    CASE op = "ValueOperator::Plus" -> "Plus"

\* C10 as stated: parse_value_expression on Operator(op, l, r) returns the
\* Function named after op on the translations of l and r, in that order,
\* both with alias None.
C10_ArithmeticIsFunction ==
    (Called("parse_value_expression") /\ arg.tag = "ValueExpression::Operator") =>
        /\ pc = "returned" /\ IsOk(out)
        /\ out.v.tag = "Expression::Function" /\ out.v.name = DisplayForm(arg.op)
        /\ Len(out.v.args) = 2
        /\ parse_value_expression(arg.left) = Ok(out.v.args[1].e)
        /\ parse_value_expression(arg.right) = Ok(out.v.args[2].e)
        /\ \A i \in 1..2 :
              out.v.args[i].tag = "Named::Expression" /\ out.v.args[i].alias = None

\* C10 amended: that holds when both operands translate; when l does not,
\* the call returns l's error, and when l does and r does not, r's error.
C10_ArithmeticIsFunctionOrError ==
    (Called("parse_value_expression") /\ arg.tag = "ValueExpression::Operator") =>
        LET l == parse_value_expression(arg.left)
            r == parse_value_expression(arg.right)
        IN  /\ pc = "returned"
            /\ (IsOk(l) /\ IsOk(r)) =>
                  out = Ok([tag |-> "Expression::Function", name |-> DisplayForm(arg.op),
                            args |-> << [tag |-> "Named::Expression", e |-> l.v,
                                         alias |-> None],
                                        [tag |-> "Named::Expression", e |-> r.v,
                                         alias |-> None] >>])
            /\ ~IsOk(l) => (IsErr(l) /\ out = l)
            /\ (IsOk(l) /\ ~IsOk(r)) => (IsErr(r) /\ out = r)

\* a nested sum with a bare column was translated, the inner call first
C10_Witness ==
    /\ Returned("parse_value_expression") /\ IsOk(out)
    /\ arg.tag = "ValueExpression::Operator"
    /\ arg.left.tag = "ValueExpression::Operator"
    /\ arg.right = VEColumn("a")
    /\ out.v.args[1].e.tag = "Expression::Function"
    /\ out.v.args[2] = NamedExpression(Variable("a"), None)

\* C11: every error parse_query returns is TypeMismatch: the
\* NotAggregateFunction of parse_aggregate is absorbed by the fallback to
\* parse_expression, and no translator returns UnsupportedLogicOperator or
\* SelectExprMustBeNamed.
C11_OnlyTypeMismatchReturned ==
    /\ (Returned("parse_query") /\ IsErr(out)) => out.e = TypeMismatch
    /\ (pc = "returned" /\ IsErr(out)) =>
          out.e \notin {UnsupportedLogicOperator, SelectExprMustBeNamed}

\* parse_query returned an error on a select list with an item that
\* parse_aggregate refused as NotAggregateFunction
C11_Witness ==
    /\ Returned("parse_query") /\ IsErr(out)
    /\ \E i \in 1..Len(arg.query.select_exprs) :
          parse_aggregate(arg.query.select_exprs[i]) = Err(NotAggregateFunction)

=============================================================================
